---- MODULE Spec2Model ----
(***************************************************************************)
(* Buffer-object lifecycle, handle validation / reference counting and the *)
(* lock state machine of gralloc_drm.c, for one process.                    *)
(*                                                                         *)
(* Memory is modelled as two heaps: `handle` (struct gralloc_drm_handle_t) *)
(* and `bo` (struct gralloc_drm_bo_t).  Freed storage keeps its record     *)
(* with st = "freed", so that accesses to it can be observed.              *)
(* Usage bitmasks are sets of bit positions: & is \cap, | is \cup.         *)
(***************************************************************************)
EXTENDS Integers, FiniteSets, Sequences, TLC

\* ---------------------------------------------------------------- bounds
MaxBos == 2        \* backend allocations that may succeed in one run
MaxRef == 4        \* register is not issued beyond this refcount
MaxLock == 2       \* lock is not issued beyond this lock_count

\* ------------------------------------------------------------- constants
NULL == 0
EINVAL == 22
EMAP == 12         \* some non-zero error of the backend's map
OtherPid == 7      \* pid of the process a received handle comes from

Locals == {1}       \* handle storage bo_create may allocate
Foreign == {2}      \* handles received from another process
Handles == Locals \cup Foreign
BOs == 1..MaxBos
Contexts == {1}
STALE == MaxBos + 1   \* a pointer value of another address space

\* usage bits (bit positions of the GRALLOC_USAGE_* masks)
GRALLOC_USAGE_SW_READ_MASK == {0, 1, 2, 3}
GRALLOC_USAGE_SW_WRITE_MASK == {4, 5, 6, 7}
GRALLOC_USAGE_SW_READ_OFTEN == {0, 1}
GRALLOC_USAGE_HW_TEXTURE == {8}
GRALLOC_USAGE_HW_RENDER == {9}
GRALLOC_USAGE_HW_FB == {12}
GRALLOC_USAGE_HW_VIDEO_ENCODER == {16}

\* usages handles are created with / locks are requested with
HandleUsages == { {5}, {1, 5}, {9}, {8, 9} }
LockUsages == { {1}, {5}, {9}, {1, 5}, {1, 9} }

VARIABLES handle, bo, last, sess, crashed, thr

vars == <<handle, bo, last, sess, crashed, thr>>

\* ---------------------------------------------------------------- memory
NoHandle == [st |-> "none", magic |-> FALSE, data_owner |-> 0, data |-> NULL,
             name |-> 0, usage |-> {}]

NoBo == [st |-> "none", drm |-> NULL, imported |-> 0, handle |-> NULL,
         refcount |-> 0, lock_count |-> 0, locked_for |-> {}, mapped |-> 0,
         frees |-> 0]

\* what one call did to the backend, and whether it touched freed memory
EvNone == [allocs |-> 0, frees |-> 0, maps |-> 0, unmaps |-> 0, uaf |-> FALSE]

Mem == [handle |-> handle, bo |-> bo, ev |-> EvNone]

gralloc_drm_get_pid == 1

\* the backend's alloc: a new zeroed object, or NULL
FreeBos(M) == {b \in BOs : M.bo[b].st = "none"}

NewBo(M) == CHOOSE b \in FreeBos(M) : \A c \in FreeBos(M) : b <= c

drv_alloc(M, h, ok) ==
  LET M1 == [M EXCEPT !.ev.allocs = @ + 1]
  IN IF ok /\ FreeBos(M) # {}
     THEN LET b == NewBo(M)
          IN [M |-> [M1 EXCEPT !.bo[b] = [NoBo EXCEPT !.st = "live"],
                               !.handle[h].name = 1],
              ret |-> b]
     ELSE [M |-> M1, ret |-> NULL]

\* the backend's free
drv_free(M, b) ==
  [M EXCEPT !.bo[b].st = "freed", !.bo[b].frees = @ + 1, !.ev.frees = @ + 1]

\* validate_handle that forgets to record the importing process in the handle
validate_handle_noOwner(M, h, drm, ok) ==
  IF ~M.handle[h].magic
  THEN [M |-> M, ret |-> NULL]
  ELSE IF M.handle[h].data_owner # gralloc_drm_get_pid
  THEN IF drm = NULL
       THEN [M |-> M, ret |-> NULL]
       ELSE LET a == IF M.handle[h].name # 0
                     THEN drv_alloc(M, h, ok)
                     ELSE [M |-> M, ret |-> NULL]
                b == a.ret
                M2 == IF b # NULL
                      THEN [a.M EXCEPT !.bo[b].drm = drm,
                                       !.bo[b].imported = 1,
                                       !.bo[b].handle = h,
                                       !.bo[b].refcount = 1]
                      ELSE a.M
                M3 == [M2 EXCEPT !.handle[h].data = b]
            IN [M |-> M3, ret |-> M3.handle[h].data]
  ELSE [M |-> M, ret |-> M.handle[h].data]

\* validate_handle without the "check only" return for a null context
validate_handle_noCheck(M, h, drm, ok) ==
  IF ~M.handle[h].magic
  THEN [M |-> M, ret |-> NULL]
  ELSE IF M.handle[h].data_owner # gralloc_drm_get_pid
  THEN LET a == IF M.handle[h].name # 0
                THEN drv_alloc(M, h, ok)
                ELSE [M |-> M, ret |-> NULL]
           b == a.ret
           M2 == IF b # NULL
                 THEN [a.M EXCEPT !.bo[b].drm = drm,
                                  !.bo[b].imported = 1,
                                  !.bo[b].handle = h,
                                  !.bo[b].refcount = 1]
                 ELSE a.M
           M3 == [M2 EXCEPT !.handle[h].data_owner = gralloc_drm_get_pid,
                            !.handle[h].data = b]
       IN [M |-> M3, ret |-> M3.handle[h].data]
  ELSE [M |-> M, ret |-> M.handle[h].data]

\* ------------------------------------------------------- validate_handle
validate_handle(M, h, drm, ok) ==
  IF ~M.handle[h].magic
  THEN [M |-> M, ret |-> NULL]
  ELSE IF M.handle[h].data_owner # gralloc_drm_get_pid
  THEN IF drm = NULL
       THEN [M |-> M, ret |-> NULL]
       ELSE LET a == IF M.handle[h].name # 0
                     THEN drv_alloc(M, h, ok)
                     ELSE [M |-> M, ret |-> NULL]
                b == a.ret
                M2 == IF b # NULL
                      THEN [a.M EXCEPT !.bo[b].drm = drm,
                                       !.bo[b].imported = 1,
                                       !.bo[b].handle = h,
                                       !.bo[b].refcount = 1]
                      ELSE a.M
                M3 == [M2 EXCEPT !.handle[h].data_owner = gralloc_drm_get_pid,
                                 !.handle[h].data = b]
            IN [M |-> M3, ret |-> M3.handle[h].data]
  ELSE [M |-> M, ret |-> M.handle[h].data]

\* bo_destroy that leaves the owner field of an imported handle set
gralloc_drm_bo_destroy_keepOwner(M, b) ==
  LET h == M.bo[b].handle
      imported == M.bo[b].imported
  IN IF M.bo[b].refcount # 0
     THEN M
     ELSE LET M1 == drv_free(M, b)
          IN IF imported # 0
             THEN [M1 EXCEPT !.handle[h].data = NULL]
             ELSE [M1 EXCEPT !.handle[h].st = "freed"]

\* bo_decref that never destroys
gralloc_drm_bo_decref_noDestroy(M, b) ==
  [M EXCEPT !.bo[b].refcount = @ - 1]

\* ---------------------------------------------------- destroy and decref
gralloc_drm_bo_destroy(M, b) ==
  LET h == M.bo[b].handle
      imported == M.bo[b].imported
  IN IF M.bo[b].refcount # 0
     THEN M
     ELSE LET M1 == drv_free(M, b)
          IN IF imported # 0
             THEN [M1 EXCEPT !.handle[h].data_owner = 0,
                             !.handle[h].data = NULL]
             ELSE [M1 EXCEPT !.handle[h].st = "freed"]

gralloc_drm_bo_decref(M, b) ==
  LET M1 == [M EXCEPT !.bo[b].refcount = @ - 1]
  IN IF M1.bo[b].refcount = 0
     THEN gralloc_drm_bo_destroy(M1, b)
     ELSE M1

\* ------------------------------------------------- register / unregister
gralloc_drm_handle_register(M, h, drm, ok) ==
  LET v == validate_handle(M, h, drm, ok)
  IN IF v.ret = NULL
     THEN [M |-> v.M, ret |-> -EINVAL, b |-> NULL]
     ELSE [M |-> [v.M EXCEPT !.bo[v.ret].refcount = @ + 1], ret |-> 0,
           b |-> v.ret]

\* What a read of the freed object can yield after the first decref has
\* destroyed it: the value found in `imported`, the value found in
\* `refcount`, or a fault.  A second decref of a stale refcount of 0 leaves
\* it below zero (the width of the field is declared outside this file);
\* a stale refcount of 1 makes it destroy the object a second time.
StaleReads == { [fault |-> FALSE, imported |-> 0, refcount |-> 0],
                [fault |-> FALSE, imported |-> 1, refcount |-> 0],
                [fault |-> FALSE, imported |-> 1, refcount |-> 1],
                [fault |-> TRUE, imported |-> 0, refcount |-> 0] }

gralloc_drm_handle_unregister(M, h, stale) ==
  LET v == validate_handle(M, h, NULL, FALSE)
      b == v.ret
  IN IF b = NULL
     THEN [M |-> v.M, ret |-> -EINVAL, b |-> NULL, fault |-> FALSE]
     ELSE LET M1 == gralloc_drm_bo_decref(v.M, b)
          IN IF M1.bo[b].st = "freed"
             THEN \* `bo->imported` is read from freed memory
                  LET M2 == [M1 EXCEPT !.ev.uaf = TRUE,
                                       !.bo[b].imported = stale.imported,
                                       !.bo[b].refcount = stale.refcount]
                  IN IF stale.fault
                     THEN [M |-> [M1 EXCEPT !.ev.uaf = TRUE], ret |-> 0,
                           b |-> b, fault |-> TRUE]
                     ELSE IF stale.imported # 0
                     THEN [M |-> gralloc_drm_bo_decref(M2, b), ret |-> 0,
                           b |-> b, fault |-> FALSE]
                     ELSE [M |-> M2, ret |-> 0, b |-> b, fault |-> FALSE]
             ELSE IF M1.bo[b].imported # 0
             THEN [M |-> gralloc_drm_bo_decref(M1, b), ret |-> 0, b |-> b,
                   fault |-> FALSE]
             ELSE [M |-> M1, ret |-> 0, b |-> b, fault |-> FALSE]

\* ---------------------------------------------------------------- create
create_bo_handle(usage) ==
  [st |-> "valid", magic |-> TRUE, data_owner |-> 0, data |-> NULL,
   name |-> 0, usage |-> usage]

gralloc_drm_bo_create(M, h, drm, usage, ok) ==
  LET M0 == [M EXCEPT !.handle[h] = create_bo_handle(usage)]
      a == drv_alloc(M0, h, ok)
      b == a.ret
  IN IF b = NULL
     THEN [M |-> [a.M EXCEPT !.handle[h].st = "freed"], ret |-> NULL]
     ELSE [M |-> [a.M EXCEPT !.bo[b].drm = drm,
                             !.bo[b].imported = 0,
                             !.bo[b].handle = h,
                             !.bo[b].refcount = 1,
                             !.handle[h].data_owner = gralloc_drm_get_pid,
                             !.handle[h].data = b],
           ret |-> b]

gralloc_drm_bo_from_handle(M, h) == validate_handle(M, h, NULL, FALSE)

\* bo_lock without the check of the usage against locked_for
gralloc_drm_bo_lock_noCompat(M, b, usage, mapOk) ==
  LET hu == M.handle[M.bo[b].handle].usage
  IN IF (hu \cap usage) # usage
        /\ (hu \cap (GRALLOC_USAGE_SW_READ_OFTEN \cup GRALLOC_USAGE_HW_FB \cup
                     GRALLOC_USAGE_HW_TEXTURE \cup
                     GRALLOC_USAGE_HW_VIDEO_ENCODER)) = {}
     THEN [M |-> M, ret |-> -EINVAL]
     ELSE LET u == usage \cup M.bo[b].locked_for
              needMap == (u \cap (GRALLOC_USAGE_SW_WRITE_MASK \cup
                                  GRALLOC_USAGE_SW_READ_MASK)) # {}
              M1 == IF needMap THEN [M EXCEPT !.ev.maps = @ + 1] ELSE M
          IN IF needMap /\ ~mapOk
             THEN [M |-> M1, ret |-> -EMAP]
             ELSE [M |-> [M1 EXCEPT !.bo[b].lock_count = @ + 1,
                                    !.bo[b].locked_for = @ \cup u,
                                    !.bo[b].mapped =
                                        IF needMap THEN @ + 1 ELSE @],
                   ret |-> 0]

\* bo_lock that maps whatever the usage
gralloc_drm_bo_lock_alwaysMap(M, b, usage, mapOk) ==
  LET hu == M.handle[M.bo[b].handle].usage
  IN IF (hu \cap usage) # usage
        /\ (hu \cap (GRALLOC_USAGE_SW_READ_OFTEN \cup GRALLOC_USAGE_HW_FB \cup
                     GRALLOC_USAGE_HW_TEXTURE \cup
                     GRALLOC_USAGE_HW_VIDEO_ENCODER)) = {}
     THEN [M |-> M, ret |-> -EINVAL]
     ELSE IF M.bo[b].lock_count # 0 /\ (M.bo[b].locked_for \cap usage) # usage
     THEN [M |-> M, ret |-> -EINVAL]
     ELSE LET u == usage \cup M.bo[b].locked_for
              M1 == [M EXCEPT !.ev.maps = @ + 1]
          IN IF ~mapOk
             THEN [M |-> M1, ret |-> -EMAP]
             ELSE [M |-> [M1 EXCEPT !.bo[b].lock_count = @ + 1,
                                    !.bo[b].locked_for = @ \cup u,
                                    !.bo[b].mapped = @ + 1],
                   ret |-> 0]

\* bo_lock that counts the lock before it maps
gralloc_drm_bo_lock_countFirst(M, b, usage, mapOk) ==
  LET hu == M.handle[M.bo[b].handle].usage
  IN IF (hu \cap usage) # usage
        /\ (hu \cap (GRALLOC_USAGE_SW_READ_OFTEN \cup GRALLOC_USAGE_HW_FB \cup
                     GRALLOC_USAGE_HW_TEXTURE \cup
                     GRALLOC_USAGE_HW_VIDEO_ENCODER)) = {}
     THEN [M |-> M, ret |-> -EINVAL]
     ELSE IF M.bo[b].lock_count # 0 /\ (M.bo[b].locked_for \cap usage) # usage
     THEN [M |-> M, ret |-> -EINVAL]
     ELSE LET u == usage \cup M.bo[b].locked_for
              needMap == (u \cap (GRALLOC_USAGE_SW_WRITE_MASK \cup
                                  GRALLOC_USAGE_SW_READ_MASK)) # {}
              M1 == [M EXCEPT !.bo[b].lock_count = @ + 1,
                              !.bo[b].locked_for = @ \cup u]
              M2 == IF needMap THEN [M1 EXCEPT !.ev.maps = @ + 1] ELSE M1
          IN IF needMap /\ ~mapOk
             THEN [M |-> M2, ret |-> -EMAP]
             ELSE [M |-> [M2 EXCEPT !.bo[b].mapped =
                                        IF needMap THEN @ + 1 ELSE @],
                   ret |-> 0]

\* bo_unlock without the test of lock_count
gralloc_drm_bo_unlock_noGuard(M, b) ==
  LET mapped == M.bo[b].locked_for \cap (GRALLOC_USAGE_SW_WRITE_MASK \cup
                                         GRALLOC_USAGE_SW_READ_MASK)
      M1 == IF mapped # {}
            THEN [M EXCEPT !.ev.unmaps = @ + 1, !.bo[b].mapped = @ - 1]
            ELSE M
      M2 == [M1 EXCEPT !.bo[b].lock_count = @ - 1]
  IN IF M2.bo[b].lock_count = 0
     THEN [M2 EXCEPT !.bo[b].locked_for = {}]
     ELSE M2

\* bo_unlock that keeps locked_for when the last lock is released
gralloc_drm_bo_unlock_keepUsage(M, b) ==
  LET mapped == M.bo[b].locked_for \cap (GRALLOC_USAGE_SW_WRITE_MASK \cup
                                         GRALLOC_USAGE_SW_READ_MASK)
  IN IF M.bo[b].lock_count = 0
     THEN M
     ELSE LET M1 == IF mapped # {}
                    THEN [M EXCEPT !.ev.unmaps = @ + 1, !.bo[b].mapped = @ - 1]
                    ELSE M
          IN [M1 EXCEPT !.bo[b].lock_count = @ - 1]

\* bo_unlock that unmaps only when the last lock is released
gralloc_drm_bo_unlock_unmapLast(M, b) ==
  LET mapped == M.bo[b].locked_for \cap (GRALLOC_USAGE_SW_WRITE_MASK \cup
                                         GRALLOC_USAGE_SW_READ_MASK)
  IN IF M.bo[b].lock_count = 0
     THEN M
     ELSE LET M2 == [M EXCEPT !.bo[b].lock_count = @ - 1]
          IN IF M2.bo[b].lock_count = 0
             THEN IF mapped # {}
                  THEN [M2 EXCEPT !.ev.unmaps = @ + 1, !.bo[b].mapped = @ - 1,
                                  !.bo[b].locked_for = {}]
                  ELSE [M2 EXCEPT !.bo[b].locked_for = {}]
             ELSE M2

\* ----------------------------------------------------------- lock/unlock
SwMask == GRALLOC_USAGE_SW_WRITE_MASK \cup GRALLOC_USAGE_SW_READ_MASK

LockExceptions == GRALLOC_USAGE_SW_READ_OFTEN \cup GRALLOC_USAGE_HW_FB \cup
                  GRALLOC_USAGE_HW_TEXTURE \cup GRALLOC_USAGE_HW_VIDEO_ENCODER

gralloc_drm_bo_lock(M, b, usage, mapOk) ==
  LET hu == M.handle[M.bo[b].handle].usage
  IN IF (hu \cap usage) # usage /\ (hu \cap LockExceptions) = {}
     THEN [M |-> M, ret |-> -EINVAL]
     ELSE IF M.bo[b].lock_count # 0 /\ (M.bo[b].locked_for \cap usage) # usage
     THEN [M |-> M, ret |-> -EINVAL]
     ELSE LET u == usage \cup M.bo[b].locked_for
              needMap == (u \cap SwMask) # {}
              M1 == IF needMap THEN [M EXCEPT !.ev.maps = @ + 1] ELSE M
          IN IF needMap /\ ~mapOk
             THEN [M |-> M1, ret |-> -EMAP]
             ELSE [M |-> [M1 EXCEPT !.bo[b].lock_count = @ + 1,
                                    !.bo[b].locked_for = @ \cup u,
                                    !.bo[b].mapped =
                                        IF needMap THEN @ + 1 ELSE @],
                   ret |-> 0]

gralloc_drm_bo_unlock(M, b) ==
  LET mapped == M.bo[b].locked_for \cap SwMask
  IN IF M.bo[b].lock_count = 0
     THEN M
     ELSE LET M1 == IF mapped # {}
                    THEN [M EXCEPT !.ev.unmaps = @ + 1, !.bo[b].mapped = @ - 1]
                    ELSE M
              M2 == [M1 EXCEPT !.bo[b].lock_count = @ - 1]
          IN IF M2.bo[b].lock_count = 0
             THEN [M2 EXCEPT !.bo[b].locked_for = {}]
             ELSE M2

\* ------------------------------------------------------------ the machine
NoCall == [op |-> "init", h |-> NULL, b |-> NULL, drm |-> NULL, usage |-> {},
           ok |-> FALSE, ret |-> 0, ev |-> EvNone]

\* two threads of the process, each inside one gralloc_drm_handle_register
Threads == {1, 2}

NoThread == [pc |-> "start", bo |-> NULL, tmp |-> 0, ret |-> 0]

NoSess == [h |-> NULL, phase |-> "idle", n |-> 0, m |-> 0, base |-> 0]

\* the object a lookup through h finds in state (hs, bs), NULL if none
Cached(hs, h) ==
  IF hs[h].st = "valid" /\ hs[h].magic
     /\ hs[h].data_owner = gralloc_drm_get_pid
  THEN hs[h].data
  ELSE NULL

\* the refcount of the object reachable through h, 0 if there is none
RefOf(hs, bs, h) ==
  IF Cached(hs, h) \in BOs /\ bs[Cached(hs, h)].st = "live"
  THEN bs[Cached(hs, h)].refcount
  ELSE 0

\* a handle as the transport delivers it from another process: its
\* process-local fields are those of the sender
ReceivedHandles ==
  { [st |-> "valid", magic |-> TRUE, data_owner |-> pl[1], data |-> pl[2],
     name |-> nm, usage |-> {1, 5}] :
       pl \in {<<OtherPid, STALE>>, <<0, NULL>>}, nm \in {0, 1} }
  \cup { [st |-> "valid", magic |-> FALSE, data_owner |-> OtherPid,
          data |-> STALE, name |-> 1, usage |-> {1, 5}] }

Init ==
  /\ handle \in [Handles -> ReceivedHandles \cup {NoHandle}]
  /\ \A h \in Locals : handle[h] = NoHandle
  /\ \A h \in Foreign : handle[h] \in ReceivedHandles
  /\ bo = [b \in BOs |-> NoBo]
  /\ last = NoCall
  /\ sess = NoSess
  /\ crashed = FALSE
  /\ thr = [t \in Threads |-> NoThread]

Create(h, drm, usage, ok) ==
  /\ ~crashed
  /\ handle[h].st = "none"
  /\ \A g \in Locals : handle[g].st = "none" => h <= g
  /\ ok => FreeBos(Mem) # {}
  /\ LET r == gralloc_drm_bo_create(Mem, h, drm, usage, ok)
     IN /\ handle' = r.M.handle
        /\ bo' = r.M.bo
        /\ last' = [op |-> "create", h |-> h, b |-> r.ret, drm |-> drm,
                    usage |-> usage, ok |-> ok, ret |-> 0, ev |-> r.M.ev]
  /\ UNCHANGED <<sess, crashed, thr>>

\* a register of h will ask the backend to import
WillImport(h) ==
  /\ handle[h].magic
  /\ handle[h].data_owner # gralloc_drm_get_pid
  /\ handle[h].name # 0

Register(h, drm, ok) ==
  /\ ~crashed
  /\ handle[h].st = "valid"
  /\ IF WillImport(h) THEN ok => FreeBos(Mem) # {} ELSE ok
  /\ RefOf(handle, bo, h) < MaxRef
  /\ LET r == gralloc_drm_handle_register(Mem, h, drm, ok)
     IN /\ handle' = r.M.handle
        /\ bo' = r.M.bo
        /\ last' = [op |-> "register", h |-> h, b |-> r.b, drm |-> drm,
                    usage |-> {}, ok |-> ok, ret |-> r.ret, ev |-> r.M.ev]
        /\ sess' = IF r.ret # 0 THEN sess
                   ELSE IF sess.h = h /\ sess.phase = "reg"
                   THEN [sess EXCEPT !.n = @ + 1]
                   ELSE [h |-> h, phase |-> "reg", n |-> 1, m |-> 0,
                         base |-> RefOf(handle, bo, h)]
  /\ UNCHANGED <<crashed, thr>>

Unregister(h, stale) ==
  /\ ~crashed
  /\ handle[h].st = "valid"
  /\ LET r == gralloc_drm_handle_unregister(Mem, h, stale)
     IN /\ handle' = r.M.handle
        /\ bo' = r.M.bo
        /\ crashed' = r.fault
        /\ last' = [op |-> "unregister", h |-> h, b |-> r.b, drm |-> NULL,
                    usage |-> {}, ok |-> FALSE, ret |-> r.ret, ev |-> r.M.ev]
        /\ sess' = IF sess.h # h \/ sess.phase \notin {"reg", "unreg"}
                   THEN sess
                   ELSE IF sess.m < sess.n
                   THEN [sess EXCEPT !.m = @ + 1, !.phase = "unreg"]
                   ELSE [sess EXCEPT !.phase = "over"]
  /\ UNCHANGED thr

Decref(b) ==
  /\ ~crashed
  /\ bo[b].st = "live"
  /\ LET M1 == gralloc_drm_bo_decref(Mem, b)
     IN /\ handle' = M1.handle
        /\ bo' = M1.bo
        /\ last' = [op |-> "decref", h |-> bo[b].handle, b |-> b,
                    drm |-> NULL, usage |-> {}, ok |-> FALSE, ret |-> 0,
                    ev |-> M1.ev]
  /\ sess' = IF sess.h = bo[b].handle THEN NoSess ELSE sess
  /\ UNCHANGED <<crashed, thr>>

FromHandle(h) ==
  /\ ~crashed
  /\ handle[h].st = "valid"
  /\ LET r == gralloc_drm_bo_from_handle(Mem, h)
     IN /\ handle' = r.M.handle
        /\ bo' = r.M.bo
        /\ last' = [op |-> "from_handle", h |-> h, b |-> r.ret, drm |-> NULL,
                    usage |-> {}, ok |-> FALSE, ret |-> 0, ev |-> r.M.ev]
  /\ UNCHANGED <<sess, crashed, thr>>

Lock(b, usage, mapOk) ==
  /\ ~crashed
  /\ bo[b].st = "live"
  /\ bo[b].lock_count < MaxLock
  /\ LET r == gralloc_drm_bo_lock(Mem, b, usage, mapOk)
     IN /\ handle' = r.M.handle
        /\ bo' = r.M.bo
        /\ last' = [op |-> "lock", h |-> bo[b].handle, b |-> b, drm |-> NULL,
                    usage |-> usage, ok |-> mapOk, ret |-> r.ret,
                    ev |-> r.M.ev]
  /\ UNCHANGED <<sess, crashed, thr>>

Unlock(b) ==
  /\ ~crashed
  /\ bo[b].st = "live"
  /\ LET M1 == gralloc_drm_bo_unlock(Mem, b)
     IN /\ handle' = M1.handle
        /\ bo' = M1.bo
        /\ last' = [op |-> "unlock", h |-> bo[b].handle, b |-> b,
                    drm |-> NULL, usage |-> {}, ok |-> FALSE, ret |-> 0,
                    ev |-> M1.ev]
  /\ UNCHANGED <<sess, crashed, thr>>

CreateUsages == { {9} }

Next ==
  \/ \E h \in Locals, drm \in Contexts, usage \in CreateUsages, ok \in BOOLEAN :
        Create(h, drm, usage, ok)
  \/ \E h \in Handles, drm \in Contexts, ok \in BOOLEAN : Register(h, drm, ok)
  \/ \E h \in Handles, stale \in StaleReads : Unregister(h, stale)
  \/ \E b \in BOs : Decref(b)
  \/ \E h \in Handles : FromHandle(h)

Spec == Init /\ [][Next]_vars

NextLock ==
  \/ \E h \in Locals, drm \in Contexts, usage \in HandleUsages, ok \in BOOLEAN :
        Create(h, drm, usage, ok)
  \/ \E b \in BOs : Decref(b)
  \/ \E b \in BOs, usage \in LockUsages, mapOk \in BOOLEAN : Lock(b, usage, mapOk)
  \/ \E b \in BOs : Unlock(b)

SpecLock == Init /\ [][NextLock]_vars


\* ------------------------------------------- register, one access a step
\* The two threads register the same received handle with the same
\* context; nothing serializes them.  Each step is one access to the
\* shared handle or object.
RaceHandle == CHOOSE h \in Foreign : TRUE

RaceDrm == CHOOSE d \in Contexts : TRUE

\* lines 199-210: the handle and its owner are tested
T_Check(t) ==
  /\ ~crashed
  /\ thr[t].pc = "start"
  /\ thr' = [thr EXCEPT ![t] =
        IF ~handle[RaceHandle].magic
        THEN [@ EXCEPT !.pc = "done", !.ret = -EINVAL]
        ELSE IF handle[RaceHandle].data_owner # gralloc_drm_get_pid
        THEN [@ EXCEPT !.pc = "alloc"]
        ELSE [@ EXCEPT !.pc = "ret"]]
  /\ UNCHANGED <<handle, bo, last, sess, crashed>>

\* lines 213-222: the import and the fields of the new, still private object
T_Alloc(t, ok) ==
  /\ ~crashed
  /\ thr[t].pc = "alloc"
  /\ ok => FreeBos(Mem) # {}
  /\ LET a == IF handle[RaceHandle].name # 0
              THEN drv_alloc(Mem, RaceHandle, ok)
              ELSE [M |-> Mem, ret |-> NULL]
         b == a.ret
     IN /\ bo' = IF b # NULL
                 THEN [a.M.bo EXCEPT ![b].drm = RaceDrm,
                                     ![b].imported = 1,
                                     ![b].handle = RaceHandle,
                                     ![b].refcount = 1]
                 ELSE a.M.bo
        /\ handle' = a.M.handle
        /\ thr' = [thr EXCEPT ![t].pc = "owner", ![t].bo = b]
  /\ UNCHANGED <<last, sess, crashed>>

\* line 224
T_Owner(t) ==
  /\ ~crashed
  /\ thr[t].pc = "owner"
  /\ handle' = [handle EXCEPT ![RaceHandle].data_owner = gralloc_drm_get_pid]
  /\ thr' = [thr EXCEPT ![t].pc = "data"]
  /\ UNCHANGED <<bo, last, sess, crashed>>

\* line 225
T_Data(t) ==
  /\ ~crashed
  /\ thr[t].pc = "data"
  /\ handle' = [handle EXCEPT ![RaceHandle].data = thr[t].bo]
  /\ thr' = [thr EXCEPT ![t].pc = "ret"]
  /\ UNCHANGED <<bo, last, sess, crashed>>

\* lines 228 and 238-240: handle->data is read and tested
T_Ret(t) ==
  /\ ~crashed
  /\ thr[t].pc = "ret"
  /\ thr' = [thr EXCEPT ![t] =
        IF handle[RaceHandle].data = NULL
        THEN [@ EXCEPT !.pc = "done", !.bo = NULL, !.ret = -EINVAL]
        ELSE [@ EXCEPT !.pc = "inc_read", !.bo = handle[RaceHandle].data]]
  /\ UNCHANGED <<handle, bo, last, sess, crashed>>

\* line 242, the read of bo->refcount; a pointer of another address space
\* faults
T_IncRead(t) ==
  /\ ~crashed
  /\ thr[t].pc = "inc_read"
  /\ IF thr[t].bo \in BOs
     THEN /\ thr' = [thr EXCEPT ![t].pc = "inc_write",
                                ![t].tmp = bo[thr[t].bo].refcount]
          /\ UNCHANGED crashed
     ELSE /\ crashed' = TRUE
          /\ UNCHANGED thr
  /\ UNCHANGED <<handle, bo, last, sess>>

\* line 242, the write of bo->refcount, and the return
T_IncWrite(t) ==
  /\ ~crashed
  /\ thr[t].pc = "inc_write"
  /\ bo' = [bo EXCEPT ![thr[t].bo].refcount = thr[t].tmp + 1]
  /\ thr' = [thr EXCEPT ![t].pc = "done", ![t].ret = 0]
  /\ UNCHANGED <<handle, last, sess, crashed>>

NextConc ==
  \/ \E t \in Threads : T_Check(t)
  \/ \E t \in Threads, ok \in BOOLEAN : T_Alloc(t, ok)
  \/ \E t \in Threads : T_Owner(t)
  \/ \E t \in Threads : T_Data(t)
  \/ \E t \in Threads : T_Ret(t)
  \/ \E t \in Threads : T_IncRead(t)
  \/ \E t \in Threads : T_IncWrite(t)

SpecConc == Init /\ [][NextConc]_vars

\* ----------------------------------------------------------------- claims
\* The handle of the registration run `sess` records has a live object.
SessLive == RefOf(handle, bo, sess.h) >= 1

\* C1: N successful registers followed by N unregisters of a handle leave
\* the refcount of its object at the value it had before the first of
\* those registers (0 standing for "no object").
C1_RegisterUnregisterRestoresRefcount ==
  (sess.phase = "unreg" /\ sess.m = sess.n)
     => RefOf(handle, bo, sess.h) = sess.base

\* C2: after N registers and N unregisters, one more unregister returns
\* -EINVAL and changes no object (no decrement, no destruction).
C2_ExtraUnregisterFails ==
  [][(sess.phase = "unreg" /\ sess.m = sess.n /\ sess'.phase = "over"
      /\ last'.op = "unregister" /\ last'.h = sess.h)
        => (last'.ret = -EINVAL /\ bo' = bo)]_vars

\* C3: an imported handle registered N times keeps its object live after
\* each of the first N-1 unregisters, and the N-th unregister destroys it.
C3_LastUnregisterDestroys ==
  (sess.h \in Foreign /\ sess.base = 0 /\ sess.phase = "unreg")
     => /\ sess.m < sess.n => SessLive
        /\ sess.m = sess.n => ~SessLive

\* C4: unregister never touches an object after the decrement that
\* destroyed it, and no refcount becomes negative.
C4_NoAccessAfterDestroy ==
  /\ ~last.ev.uaf
  /\ \A b \in BOs : bo[b].refcount >= 0

\* C5: unregister of a handle created locally by bo_create changes neither
\* the objects nor the handles.
C5_UnregisterLocalIsNoOp ==
  [][(last'.op = "unregister" /\ last'.h \in Locals)
        => (bo' = bo /\ handle' = handle)]_vars

\* C6: every object reachable through a handle's process-local reference
\* is live, is bound to that handle and has refcount >= 1; no live object
\* has refcount zero.
C6_ReachableObjectsAreLive ==
  /\ \A h \in Handles :
        (handle[h].st = "valid"
         /\ handle[h].data_owner = gralloc_drm_get_pid
         /\ handle[h].data # NULL)
           => /\ handle[h].data \in BOs
              /\ bo[handle[h].data].st = "live"
              /\ bo[handle[h].data].handle = h
              /\ bo[handle[h].data].refcount >= 1
  /\ \A b \in BOs : bo[b].st = "live" => bo[b].refcount >= 1

\* a decrement has just destroyed the object of a received handle, whose
\* fields no longer reach it
C6_Witness ==
  /\ last.op \in {"decref", "unregister"}
  /\ last.ev.frees = 1
  /\ last.h \in Foreign
  /\ handle[last.h].st = "valid"
  /\ handle[last.h].data = NULL
  /\ bo[last.b].refcount = 0

\* C7: at most one live object per handle; a validation of a handle whose
\* owner is the current pid returns the cached object and calls no backend
\* alloc; the backend alloc of an import is called only when the owner
\* differs from the current pid.
C7_OnePerHandle ==
  \A h \in Handles :
     Cardinality({b \in BOs : bo[b].st = "live" /\ bo[b].handle = h}) <= 1

C7_Step ==
  (last'.op \in {"register", "unregister", "from_handle"})
     => /\ handle[last'.h].data_owner = gralloc_drm_get_pid
             => (last'.ev.allocs = 0 /\ last'.b = handle[last'.h].data)
        /\ last'.ev.allocs > 0
             => (handle[last'.h].data_owner # gralloc_drm_get_pid
                 /\ last'.op = "register")

C8_CheckOnlyIsReadOnly ==
  [][(last'.op \in {"from_handle", "unregister"}
      /\ handle[last'.h].data_owner # gralloc_drm_get_pid)
        => /\ last'.ev.allocs = 0
           /\ handle' = handle
           /\ bo' = bo
           /\ last'.b = NULL
           /\ last'.op = "unregister" => last'.ret = -EINVAL]_vars

\* unregister was called on a handle still owned by the sending process
C8_Witness ==
  /\ last.op = "unregister"
  /\ last.ret = -EINVAL
  /\ handle[last.h].magic
  /\ handle[last.h].data_owner = OtherPid
  /\ handle[last.h].data = STALE

\* C9: destroying an imported object clears its handle's owner and
\* reference and keeps the handle storage; destroying a locally created
\* one frees the handle storage; a register with a context of a cleared
\* handle that carries a name imports, if the backend alloc succeeds, a
\* fresh object (imported, bound to the context, refcount 2) and returns 0.
C9_DestroyStep ==
  \A b \in BOs :
     (bo[b].st = "live" /\ bo'[b].st = "freed")
        => IF bo[b].imported # 0
           THEN /\ handle'[bo[b].handle].st = "valid"
                /\ handle'[bo[b].handle].data_owner = 0
                /\ handle'[bo[b].handle].data = NULL
           ELSE handle'[bo[b].handle].st = "freed"

C9_ReimportStep ==
  (last'.op = "register" /\ last'.ok
   /\ handle[last'.h].magic
   /\ handle[last'.h].data_owner = 0
   /\ handle[last'.h].name # 0)
     => /\ last'.ret = 0
        /\ last'.b \in BOs
        /\ bo[last'.b].st = "none"
        /\ bo'[last'.b].st = "live"
        /\ bo'[last'.b].imported = 1
        /\ bo'[last'.b].drm = last'.drm
        /\ bo'[last'.b].handle = last'.h
        /\ bo'[last'.b].refcount = 2
        /\ handle'[last'.h].data_owner = gralloc_drm_get_pid
        /\ handle'[last'.h].data = last'.b

C9_ImportedHandleReimportable == [][C9_DestroyStep /\ C9_ReimportStep]_vars

\* a handle whose imported object was destroyed has been imported again
C9_Witness ==
  /\ last.op = "register"
  /\ last.ret = 0
  /\ last.ev.allocs = 1
  /\ last.h \in Foreign
  /\ \E b \in BOs : bo[b].st = "freed" /\ bo[b].handle = last.h
  /\ bo[last.b].st = "live"

\* C10: a lock with usage A right after a first successful lock with A on
\* an unlocked object succeeds (the backend map permitting) and leaves
\* lock_count = 2; each unlock of a locked object takes one off lock_count
\* and empties locked_for exactly when lock_count reaches 0; a lock whose
\* usage is not within locked_for of a locked object returns -EINVAL and
\* leaves lock_count and locked_for unchanged.
C10_LockStep ==
  (last'.op = "lock")
     => /\ (bo[last'.b].lock_count > 0
            /\ ~(last'.usage \subseteq bo[last'.b].locked_for))
              => /\ last'.ret = -EINVAL
                 /\ bo'[last'.b].lock_count = bo[last'.b].lock_count
                 /\ bo'[last'.b].locked_for = bo[last'.b].locked_for
        /\ (last.op = "lock" /\ last.ret = 0 /\ last.b = last'.b
            /\ last.usage = last'.usage /\ bo[last'.b].lock_count = 1
            /\ last'.ok)
              => /\ last'.ret = 0
                 /\ bo'[last'.b].lock_count = 2
                 /\ bo'[last'.b].locked_for = bo[last'.b].locked_for

C10_UnlockStep ==
  (last'.op = "unlock" /\ bo[last'.b].lock_count > 0)
     => /\ bo'[last'.b].lock_count = bo[last'.b].lock_count - 1
        /\ bo'[last'.b].locked_for =
              IF bo[last'.b].lock_count = 1 THEN {}
              ELSE bo[last'.b].locked_for

C10_Unlocked ==
  \A b \in BOs : bo[b].lock_count = 0 => bo[b].locked_for = {}

C10_NestedLocking ==
  []C10_Unlocked /\ [][C10_LockStep /\ C10_UnlockStep]_vars

\* the same usage has been locked twice on one object
C10_Witness ==
  /\ last.op = "lock"
  /\ last.ret = 0
  /\ bo[last.b].lock_count = 2
  /\ bo[last.b].locked_for = last.usage

\* the usage of the handle an object is bound to
UsageOf(b) == handle[bo[b].handle].usage

\* C11 as claimed: a lock whose requested usage has no CPU read or write
\* bit never calls the backend map, whatever the lock state of the object.
C11_HwLockNeverMaps_AnyState ==
  [][(last'.op = "lock" /\ (last'.usage \cap SwMask) = {})
        => last'.ev.maps = 0]_vars

\* C11 as amended: a lock whose requested usage has no CPU read or write
\* bit calls no backend map when locked_for has no such bit either (in
\* particular on an unlocked object); the map is decided on the union of
\* the requested usage and locked_for.
C11_HwLockNeverMaps ==
  [][(last'.op = "lock" /\ (last'.usage \cap SwMask) = {}
      /\ (bo[last'.b].locked_for \cap SwMask) = {})
        => last'.ev.maps = 0]_vars

\* a hardware-only lock was granted on an object locked for hardware use
C11_Witness ==
  /\ last.op = "lock"
  /\ last.ret = 0
  /\ last.usage = GRALLOC_USAGE_HW_RENDER
  /\ last.ev.maps = 0
  /\ bo[last.b].lock_count = 2

\* C12: a lock is rejected by the capability check exactly when the
\* requested usage is not within the handle's usage and the handle's usage
\* has none of HW_FB, HW_TEXTURE, HW_VIDEO_ENCODER.
C12_ExceptionFlags ==
  GRALLOC_USAGE_HW_FB \cup GRALLOC_USAGE_HW_TEXTURE \cup
  GRALLOC_USAGE_HW_VIDEO_ENCODER

C12_CapabilityCheck ==
  [][(last'.op = "lock")
        => /\ (~(last'.usage \subseteq UsageOf(last'.b))
               /\ (UsageOf(last'.b) \cap C12_ExceptionFlags) = {})
                 => (last'.ret = -EINVAL /\ bo' = bo)
           /\ (bo[last'.b].lock_count = 0
               /\ (last'.usage \subseteq UsageOf(last'.b)
                   \/ (UsageOf(last'.b) \cap C12_ExceptionFlags) # {}))
                 => last'.ret # -EINVAL]_vars

\* C13: unlock of an object with lock_count = 0 changes nothing and calls
\* no backend unmap; lock_count is never negative.
C13_LockCountNat == \A b \in BOs : bo[b].lock_count >= 0

C13_UnlockStep ==
  (last'.op = "unlock" /\ bo[last'.b].lock_count = 0)
     => (bo' = bo /\ handle' = handle /\ last'.ev.unmaps = 0)

C13_UnlockUnlockedIsNoOp == []C13_LockCountNat /\ [][C13_UnlockStep]_vars

\* unlock was called on an object that holds no lock: a handle of usage
\* SW_WRITE only admits locks that map, whose unlock would unmap
C13_Witness ==
  /\ last.op = "unlock"
  /\ UsageOf(last.b) = {5}
  /\ last.ev.unmaps = 0
  /\ bo[last.b].lock_count = 0
  /\ bo[last.b].locked_for = {}

\* C14: a lock whose backend map fails returns the backend's error and
\* leaves lock_count and locked_for (and every object) as they were.
C14_MapFailureKeepsState ==
  [][(last'.op = "lock" /\ last'.ev.maps = 1 /\ ~last'.ok)
        => (last'.ret = -EMAP /\ bo' = bo /\ handle' = handle)]_vars

\* the map of a nested lock failed
C14_Witness ==
  /\ last.op = "lock"
  /\ last.ret = -EMAP
  /\ last.ev.maps = 1
  /\ bo[last.b].lock_count = 1

\* C16: lock_count is never negative, an unlocked object has an empty
\* locked_for, the first successful lock sets locked_for to the union it
\* was granted for, and locked_for does not change while lock_count > 0.
C16_LockState ==
  \A b \in BOs :
     /\ bo[b].lock_count >= 0
     /\ bo[b].lock_count = 0 => bo[b].locked_for = {}

C16_LockedForStep ==
  /\ \A b \in BOs :
        (bo[b].lock_count > 0 /\ bo'[b].lock_count > 0)
           => bo'[b].locked_for = bo[b].locked_for
  /\ (last'.op = "lock" /\ last'.ret = 0 /\ bo[last'.b].lock_count = 0)
        => bo'[last'.b].locked_for = last'.usage
  /\ (last'.op = "lock" /\ last'.ret = 0 /\ bo[last'.b].lock_count > 0)
        => last'.usage \subseteq bo[last'.b].locked_for

C16_LockStateInvariant == []C16_LockState /\ [][C16_LockedForStep]_vars

\* a nested lock asked for a proper part of the usage already locked
C16_Witness ==
  /\ last.op = "lock"
  /\ last.ret = 0
  /\ last.usage = {5}
  /\ bo[last.b].lock_count = 2
  /\ bo[last.b].locked_for = {1, 5}

\* C17: a successful lock whose union usage has a CPU bit calls the backend
\* map once, an unlock of a locked object whose locked_for has a CPU bit
\* calls the backend unmap once, and an unlocked object has had as many
\* successful maps as unmaps.
C17_Balanced == \A b \in BOs : bo[b].lock_count = 0 => bo[b].mapped = 0

C17_MapStep ==
  /\ (last'.op = "lock" /\ last'.ret = 0
      /\ ((last'.usage \cup bo[last'.b].locked_for) \cap SwMask) # {})
        => (last'.ev.maps = 1
            /\ bo'[last'.b].mapped = bo[last'.b].mapped + 1)
  /\ (last'.op = "unlock" /\ bo[last'.b].lock_count > 0
      /\ (bo[last'.b].locked_for \cap SwMask) # {})
        => (last'.ev.unmaps = 1
            /\ bo'[last'.b].mapped = bo[last'.b].mapped - 1)

C17_MapUnmapPairing == []C17_Balanced /\ [][C17_MapStep]_vars

\* the last lock of a mapped object has been released
C17_Witness ==
  /\ last.op = "unlock"
  /\ last.ev.unmaps = 1
  /\ bo[last.b].st = "live"
  /\ bo[last.b].lock_count = 0
  /\ bo[last.b].mapped = 0

\* C19: the backend free is never called on an object whose lock_count is
\* greater than 0.
C19_NoDestroyWhileLocked ==
  [][\A b \in BOs :
        (bo[b].st = "live" /\ bo'[b].st = "freed") => bo[b].lock_count = 0]_vars

\* C15: the backend free is called at most once per allocated object, the
\* successful backend allocs less the backend frees are the live objects,
\* and a bo_create whose backend alloc fails returns no object and frees
\* the handle.
RECURSIVE C15_Frees(_)
C15_Frees(n) == IF n = 0 THEN 0 ELSE bo[n].frees + C15_Frees(n - 1)

C15_AllocFreeAccounting ==
  /\ \A b \in BOs : bo[b].frees <= 1
  /\ Cardinality({b \in BOs : bo[b].st # "none"}) - C15_Frees(MaxBos)
        = Cardinality({b \in BOs : bo[b].st = "live"})
  /\ (last.op = "create" /\ ~last.ok)
        => (last.b = NULL /\ handle[last.h].st = "freed")

\* C18: a register with a context of a handle owned by another process
\* that fails (no backend name, or the backend alloc fails) returns -EINVAL
\* and leaves the handle, data_owner and data included, unchanged.
C18_FailedImportKeepsHandle ==
  [][(last'.op = "register" /\ last'.ret = -EINVAL
      /\ handle[last'.h].data_owner # gralloc_drm_get_pid)
        => handle' = handle]_vars

\* C20: when two threads register the same received handle concurrently,
\* the backend import is performed at most once, no call faults, and when
\* both calls have returned 0 they refer to the same object, whose
\* refcount counts the import and both registrations.
C20_ConcurrentRegister ==
  /\ Cardinality({b \in BOs : bo[b].st # "none"}) <= 1
  /\ ~crashed
  /\ (\A t \in Threads : thr[t].pc = "done" /\ thr[t].ret = 0)
        => /\ \A t, u \in Threads : thr[t].bo = thr[u].bo
           /\ \A t \in Threads :
                 bo[thr[t].bo].refcount = 1 + Cardinality(Threads)

====
